---- MODULE Spec2Model ----
(***************************************************************************)
(* Model of the OpenAPI plugin of src/src/index.ts: the mutable exclusion  *)
(* policy (currentExclude), the document cache (cachedSchema,              *)
(* totalRoutes), the runtime control surface (openapiMethods) and the two  *)
(* readers (the spec endpoint openAPISchema and the documentation page).   *)
(*                                                                         *)
(* JavaScript objects and arrays are references.  The model keeps a heap   *)
(* of objects (objs) and a heap of arrays (arrs); a field of an object     *)
(* holds undefined, a scalar, or a reference into arrs.  Addresses are not *)
(* observable in JavaScript, so after every step the heap is renumbered    *)
(* in a canonical order and unreachable cells are dropped (Canon).         *)
(***************************************************************************)
EXTENDS Integers, Sequences, FiniteSets, TLC

\* ------------------------------------------------------------------ bounds
MaxEntries == 2     \* entries an add call may leave in the policy, all lists together
MaxArgs    == 2     \* values passed to one variadic mutator call
MaxRoutes  == 2     \* routes the host registers besides the plugin's own
MaxHold    == 1     \* add/remove calls across which the host keeps an object

\* ------------------------------------------------------------------ values
\* A path entry is a string or a RegExp; tags and methods are strings.  Every
\* entry has the same shape; id tells two RegExp objects apart (identity).
Str(s)         == [kind |-> "str", source |-> s, flags |-> "", id |-> 0]
Re(src, fl, i) == [kind |-> "re", source |-> src, flags |-> fl, id |-> i]

PathValues   == { Str("/private"), Re("^/PR", "i", 1), Re("^/PR", "i", 2),
                  Re("^/PR", "", 3) }
TagValues    == { Str("admin"), Str("user") }
MethodValues == { Str("GET"), Str("get") }

\* A field of a policy object: undefined, an array reference, or a scalar.
Undef  == [t |-> "undef", ref |-> 0, v |-> Str("")]
Arr(r) == [t |-> "arr", ref |-> r, v |-> Str("")]
Val(e) == [t |-> "val", ref |-> 0, v |-> e]

EmptyObj == [paths |-> Undef, tags |-> Undef, methods |-> Undef]
FieldNames == {"paths", "tags", "methods"}

\* An object literal as the caller writes it: each field is undefined, an
\* array literal or (paths only) a single scalar.
LUndef    == [t |-> "undef", items |-> <<>>]
LArr(s)   == [t |-> "arr", items |-> s]
LVal(e)   == [t |-> "val", items |-> <<e>>]
Lit(p, g, m) == [paths |-> p, tags |-> g, methods |-> m]

\* The exclude values the host passes at configuration or to setExclusion.
NoArg == [paths |-> LUndef, tags |-> LUndef, methods |-> LUndef, undef |-> TRUE]
WithDef(l) == [paths |-> l.paths, tags |-> l.tags, methods |-> l.methods,
               undef |-> FALSE]
ArgMenu ==
  { NoArg,
    WithDef(Lit(LUndef, LUndef, LUndef)),
    WithDef(Lit(LArr(<<Str("/private")>>), LUndef, LUndef)),
    WithDef(Lit(LVal(Re("^/PR", "i", 1)), LUndef, LUndef)),
    WithDef(Lit(LUndef, LArr(<<Str("admin")>>), LUndef)),
    WithDef(Lit(LUndef, LUndef, LArr(<<Str("GET")>>))),
    WithDef(Lit(LArr(<<Str("/private")>>), LArr(<<Str("admin")>>), LUndef)),
    WithDef(Lit(LArr(<<Re("^/PR", "", 3)>>), LArr(<<Str("user")>>),
                LArr(<<Str("post")>>))) }

\* ------------------------------------------------------------------ routes
\* app.routes: what the framework keeps for every registered route.
Route(m, p, g, h) == [method |-> m, path |-> p, tags |-> g, hide |-> h]

PagePath == "/openapi"
SpecPath == "/openapi/json"

\* The plugin registers its page and its spec endpoint, both hidden.
OwnRoutes == << Route("GET", PagePath, <<>>, TRUE),
                Route("GET", SpecPath, <<>>, TRUE) >>

\* The routes the host application may register.
RouteMenu == { Route("GET", "/private", <<"admin">>, FALSE),
               Route("POST", "/private", <<"user">>, FALSE),
               Route("GET", "/item/:id", <<>>, FALSE),
               Route("POST", "/item/:id", <<>>, TRUE) }

\* RegExp.prototype.test on the route paths of the model.
TestRe(src, fl, p) ==
  CASE src = "^/PR" /\ fl = "i" -> p = "/private"
    [] src = "^/PR" /\ fl = ""  -> FALSE
    [] OTHER -> FALSE

\* String.prototype.toLowerCase on the method names of the model.
Lower(m) ==
  CASE m = "GET"  -> "get"
    [] m = "POST" -> "post"
    [] OTHER -> m

\* ':name' parameters become '{name}' in a path-item key.
ToOpenAPIPath(p) ==
  CASE p = "/item/:id" -> "/item/{id}"
    [] OTHER -> p

IsReserved(p) == p \in {PagePath, SpecPath}

Range(s) == { s[i] : i \in DOMAIN s }

\* ------------------------------------------------------------------ route filter
\* ex is the policy as the converter reads it at build time (a deep value).
PathMatch(r, ex) ==
  \E e \in Range(ex.paths.items) :
     IF e.kind = "re" THEN TestRe(e.source, e.flags, r.path)
                      ELSE e.source = r.path

TagMatch(r, ex) ==
  \E g \in Range(r.tags) : \E e \in Range(ex.tags.items) : e.source = g

MethodMatch(r, ex) ==
  \E e \in Range(ex.methods.items) : Lower(e.source) = Lower(r.method)

RouteFilter(r, ex) ==
  /\ ~IsReserved(r.path)
  /\ ~r.hide
  /\ ~PathMatch(r, ex)
  /\ ~TagMatch(r, ex)
  /\ ~MethodMatch(r, ex)

\* The converter: one path-item per key, one operation per method.
toOpenAPISchema(rs, ex) ==
  LET inc  == { i \in DOMAIN rs : RouteFilter(rs[i], ex) }
      keys == { ToOpenAPIPath(rs[i].path) : i \in inc }
  IN [ paths |-> [ k \in keys |->
         { Lower(rs[i].method) : i \in { j \in inc : ToOpenAPIPath(rs[j].path) = k } } ] ]

\* ------------------------------------------------------------------ documentation
\* The static documentation fragment given at configuration.
NoPaths == [ k \in {} |-> {} ]
NoDocumentation == [hasTags |-> FALSE, tags |-> <<>>, paths |-> NoPaths]
FullDocumentation ==
  [hasTags |-> TRUE, tags |-> <<"admin", "misc", "user">>,
   paths |-> ("/private" :> {"put"}) @@ ("/static" :> {"get"})]
DocumentationMenu == { NoDocumentation, FullDocumentation }

NoDoc == [defined |-> FALSE, hasTags |-> FALSE, tags |-> <<>>, paths |-> NoPaths,
          builtWith |-> NoArg]

\* { ...a, ...b }
Spread(a, b) ==
  [ k \in (DOMAIN a) \cup (DOMAIN b) |-> IF k \in DOMAIN b THEN b[k] ELSE a[k] ]

\* ------------------------------------------------------------------ state
VARIABLES
  routes,          \* app.routes
  documentation,   \* configuration: the static documentation fragment
  embedSpec,       \* configuration: the page inlines the document
  totalRoutes,     \* let totalRoutes
  cachedSchema,    \* let cachedSchema
  currentExclude,  \* let currentExclude: 0 (undefined) or an index into objs
  objs,            \* heap of policy objects
  arrs,            \* heap of arrays
  held,            \* the object the host still holds: 0 or an index into objs
  heldFrom,        \* where the host got it: "none", "arg" or "snapshot"
  heldAge,         \* add/remove calls made since the host got it
  pc,              \* the statement a running mutator call is at, or "idle"
  last             \* history: the last call, its arguments and what it returned

vars == << routes, documentation, embedSpec, totalRoutes, cachedSchema,
           currentExclude, objs, arrs, held, heldFrom, heldAge, pc, last >>

\* The heap and its two roots as one value.
Heap == [objs |-> objs, arrs |-> arrs, cur |-> currentExclude, held |-> held]

\* ------------------------------------------------------------------ heap
Truthy(f) == f.t # "undef"

ListOf(H, f) ==
  IF f.t = "arr" THEN H.arrs[f.ref] ELSE IF f.t = "val" THEN <<f.v>> ELSE <<>>

\* The deep value of object o, as a literal would write it.
Deep(H, o) ==
  IF o = 0 THEN NoArg
  ELSE [ paths   |-> [t |-> H.objs[o].paths.t,   items |-> ListOf(H, H.objs[o].paths)],
         tags    |-> [t |-> H.objs[o].tags.t,    items |-> ListOf(H, H.objs[o].tags)],
         methods |-> [t |-> H.objs[o].methods.t, items |-> ListOf(H, H.objs[o].methods)],
         undef   |-> FALSE ]

Entries(d) == Len(d.paths.items) + Len(d.tags.items) + Len(d.methods.items)

AllocField(H, lf) ==
  IF lf.t = "arr"
  THEN [H |-> [H EXCEPT !.arrs = Append(@, lf.items)], f |-> Arr(Len(H.arrs) + 1)]
  ELSE IF lf.t = "val" THEN [H |-> H, f |-> Val(lf.items[1])]
  ELSE [H |-> H, f |-> Undef]

\* The host evaluates an object literal: a new object with new arrays.
NewObject(H, lit) ==
  LET a == AllocField(H, lit.paths)
      b == AllocField(a.H, lit.tags)
      c == AllocField(b.H, lit.methods)
  IN [H |-> [c.H EXCEPT !.objs =
               Append(@, [paths |-> a.f, tags |-> b.f, methods |-> c.f])],
      o |-> Len(H.objs) + 1]

\* { ...obj }: a new object whose fields hold the same values and references.
ShallowCopy(H, o) ==
  [H |-> [H EXCEPT !.objs = Append(@, H.objs[o])], o |-> Len(H.objs) + 1]

\* [...list]: a new array
NewArray(H, items) ==
  [H |-> [H EXCEPT !.arrs = Append(@, items)], ref |-> Len(H.arrs) + 1]

RECURSIVE Dedup(_)
Dedup(s) ==
  IF s = <<>> THEN <<>>
  ELSE LET r == Dedup(SubSeq(s, 1, Len(s) - 1))
           x == s[Len(s)]
       IN IF x \in Range(r) THEN r ELSE Append(r, x)

IndexOf(s, x) == CHOOSE i \in DOMAIN s : s[i] = x

\* Renumber the reachable objects and arrays in the order the roots reach
\* them and drop the rest.
Canon(H) ==
  LET os   == Dedup(SelectSeq(<<H.cur, H.held>>, LAMBDA o : o # 0))
      flds == <<"paths", "tags", "methods">>
      fs   == [ i \in 1..(3 * Len(os)) |->
                  H.objs[os[((i - 1) \div 3) + 1]][flds[((i - 1) % 3) + 1]] ]
      afs  == SelectSeq(fs, LAMBDA f : f.t = "arr")
      rs   == Dedup([ i \in DOMAIN afs |-> afs[i].ref ])
      Fix(f) == IF f.t = "arr" THEN Arr(IndexOf(rs, f.ref)) ELSE f
      Ren(o) == IF o = 0 THEN 0 ELSE IndexOf(os, o)
  IN [ objs |-> [ i \in DOMAIN os |->
                    [ paths   |-> Fix(H.objs[os[i]].paths),
                      tags    |-> Fix(H.objs[os[i]].tags),
                      methods |-> Fix(H.objs[os[i]].methods) ] ],
       arrs |-> [ i \in DOMAIN rs |-> H.arrs[rs[i]] ],
       cur  |-> Ren(H.cur),
       held |-> Ren(H.held) ]

Install(H) ==
  LET C == Canon(H)
  IN /\ objs' = C.objs
     /\ arrs' = C.arrs
     /\ currentExclude' = C.cur
     /\ held' = C.held

\* ------------------------------------------------------------------ cache
\* Mutant: the mutators leave the cache as it is.
invalidateCacheSkipped == [cachedSchema |-> cachedSchema, totalRoutes |-> totalRoutes]

\* invalidateCache: the values it assigns.
invalidateCache == [cachedSchema |-> NoDoc, totalRoutes |-> 0]

Invalidate ==
  /\ cachedSchema' = invalidateCache.cachedSchema
  /\ totalRoutes' = invalidateCache.totalRoutes

\* Mutant: tags: documentation.tags
FilteredTagsUnfiltered(ex) == documentation.tags

\* documentation.tags filtered by currentExclude.tags, as toFullSchema does.
FilteredTags(ex) ==
  IF ~Truthy(ex.tags) THEN documentation.tags
  ELSE SelectSeq(documentation.tags,
                 LAMBDA name : ~(\E e \in Range(ex.tags.items) : e.source = name))

\* Mutant: paths: { ...documentation.paths, ...paths }
toFullSchemaGeneratedWins(conv, ex) ==
  [ defined   |-> TRUE,
    hasTags   |-> documentation.hasTags,
    tags      |-> FilteredTags(ex),
    paths     |-> Spread(documentation.paths, conv.paths),
    builtWith |-> ex ]

\* toFullSchema: the document it returns and stores in cachedSchema.
toFullSchema(conv, ex) ==
  [ defined   |-> TRUE,
    hasTags   |-> documentation.hasTags,
    tags      |-> FilteredTags(ex),
    paths     |-> Spread(conv.paths, documentation.paths),
    builtWith |-> ex ]

\* A full build over the live routes and the policy as it is now.
Build == toFullSchema(toOpenAPISchema(routes, Deep(Heap, currentExclude)),
                      Deep(Heap, currentExclude))

\* ------------------------------------------------------------------ history
Log(op, args, lit, ret, rebuilt, before) ==
  [op |-> op, args |-> args, lit |-> lit, ret |-> ret, rebuilt |-> rebuilt,
   before |-> before, stored |-> 0, hadDoc |-> FALSE, trip |-> FALSE,
   after |-> "none"]

\* A reader also records the stored count and whether a document was stored
\* when it was called, and the call it came after.
LogRead(op, ret, rebuilt) ==
  [Log(op, <<>>, NoArg, ret, rebuilt, NoArg)
     EXCEPT !.stored = totalRoutes, !.hadDoc = cachedSchema.defined,
            !.after = last.op]

\* Two entries are the same value: strings by content, RegExps by source
\* and flags.
Equal(a, b) == a.kind = b.kind /\ a.source = b.source /\ a.flags = b.flags
SameValues(s, t) == Len(s) = Len(t) /\ \A i \in DOMAIN s : Equal(s[i], t[i])

ArgSeqs(V) == UNION { [1..n -> V] : n \in 0..MaxArgs }

Config == << routes, documentation, embedSpec >>

\* Mutant: a request is served while a mutator call is between statements.
RunToCompletionPreempted == TRUE

\* The mutators and the route handlers are synchronous functions on one
\* thread: a handler starts only when no call is running.
RunToCompletion == pc = "idle"
Cache  == << totalRoutes, cachedSchema >>

\* ------------------------------------------------------------------ openapiMethods
\* Each mutator is an operator from the heap to the heap it leaves and
\* whether it reached invalidateCache().

\* Mutant: currentExclude = { ...currentExclude, ...newExclude }
setExclusionMerges(H, o) ==
  IF o # 0 /\ H.cur # 0
  THEN LET c == ShallowCopy(H, o)
           Pick(f) == IF Truthy(H.objs[o][f]) THEN H.objs[o][f] ELSE H.objs[H.cur][f]
       IN [H |-> [c.H EXCEPT !.cur = c.o,
                             !.objs[c.o] = [paths |-> Pick("paths"),
                                            tags |-> Pick("tags"),
                                            methods |-> Pick("methods")]],
           invalidate |-> TRUE]
  ELSE IF o # 0
  THEN LET c == ShallowCopy(H, o)
       IN [H |-> [c.H EXCEPT !.cur = c.o], invalidate |-> TRUE]
  ELSE [H |-> [H EXCEPT !.cur = 0], invalidate |-> TRUE]

\* currentExclude = newExclude ? { ...newExclude } : undefined
setExclusionOp(H, o) ==
  IF o # 0
  THEN LET c == ShallowCopy(H, o)
       IN [H |-> [c.H EXCEPT !.cur = c.o], invalidate |-> TRUE]
  ELSE [H |-> [H EXCEPT !.cur = 0], invalidate |-> TRUE]

\* if (!currentExclude) currentExclude = {}
EnsureExclude(H) ==
  IF H.cur = 0
  THEN LET n == NewObject(H, Lit(LUndef, LUndef, LUndef))
       IN [n.H EXCEPT !.cur = n.o]
  ELSE H

addExcludedPathsOp(H, paths) ==
  LET H1 == EnsureExclude(H)
      f  == H1.objs[H1.cur].paths
      currentPaths == IF f.t = "arr" THEN H1.arrs[f.ref]
                      ELSE IF Truthy(f) THEN <<f.v>> ELSE <<>>
      a  == NewArray(H1, currentPaths \o paths)
  IN [H |-> [a.H EXCEPT !.objs[H1.cur].paths = Arr(a.ref)], invalidate |-> TRUE]

\* Mutant: entries are compared with === alone.
SamePathIdentity(p, path) == p = path

\* Mutant: two RegExps are compared by source alone.
SamePathBySource(p, path) ==
  IF p.kind = "re" /\ path.kind = "re"
  THEN p.source = path.source
  ELSE p = path

\* p instanceof RegExp && path instanceof RegExp
\*   ? p.source === path.source && p.flags === path.flags : p === path
SamePath(p, path) ==
  IF p.kind = "re" /\ path.kind = "re"
  THEN p.source = path.source /\ p.flags = path.flags
  ELSE p = path

\* Mutant: without the early return; an absent list is filtered as [].
removeExcludedPathsOpNoEarlyReturn(H, paths) ==
  LET H1 == EnsureExclude(H)
      f  == H1.objs[H1.cur].paths
      currentPaths == IF f.t = "arr" THEN H1.arrs[f.ref]
                      ELSE IF Truthy(f) THEN <<f.v>> ELSE <<>>
      a == NewArray(H1, SelectSeq(currentPaths,
              LAMBDA p : ~(\E i \in DOMAIN paths : SamePath(p, paths[i]))))
  IN [H |-> [a.H EXCEPT !.objs[H1.cur].paths = Arr(a.ref)], invalidate |-> TRUE]

removeExcludedPathsOp(H, paths) ==
  IF H.cur = 0 \/ ~Truthy(H.objs[H.cur].paths)
  THEN [H |-> H, invalidate |-> FALSE]
  ELSE LET f == H.objs[H.cur].paths
           currentPaths == IF f.t = "arr" THEN H.arrs[f.ref] ELSE <<f.v>>
           a == NewArray(H, SelectSeq(currentPaths,
                   LAMBDA p : ~(\E i \in DOMAIN paths : SamePath(p, paths[i]))))
       IN [H |-> [a.H EXCEPT !.objs[H.cur].paths = Arr(a.ref)], invalidate |-> TRUE]

addExcludedTagsOp(H, tags) ==
  LET H1 == EnsureExclude(H)
      a  == NewArray(H1, ListOf(H1, H1.objs[H1.cur].tags) \o tags)
  IN [H |-> [a.H EXCEPT !.objs[H1.cur].tags = Arr(a.ref)], invalidate |-> TRUE]

\* Mutant: the entries are spliced out of the existing list.
removeExcludedTagsOpInPlace(H, tags) ==
  IF H.cur = 0 \/ ~Truthy(H.objs[H.cur].tags)
  THEN [H |-> H, invalidate |-> FALSE]
  ELSE [H |-> [H EXCEPT !.arrs[H.objs[H.cur].tags.ref] =
                  SelectSeq(@, LAMBDA t : ~(t \in Range(tags)))],
        invalidate |-> TRUE]

removeExcludedTagsOp(H, tags) ==
  IF H.cur = 0 \/ ~Truthy(H.objs[H.cur].tags)
  THEN [H |-> H, invalidate |-> FALSE]
  ELSE LET a == NewArray(H, SelectSeq(ListOf(H, H.objs[H.cur].tags),
                   LAMBDA t : ~(t \in Range(tags))))
       IN [H |-> [a.H EXCEPT !.objs[H.cur].tags = Arr(a.ref)], invalidate |-> TRUE]

addExcludedMethodsOp(H, methods) ==
  LET H1 == EnsureExclude(H)
      a  == NewArray(H1, ListOf(H1, H1.objs[H1.cur].methods) \o methods)
  IN [H |-> [a.H EXCEPT !.objs[H1.cur].methods = Arr(a.ref)], invalidate |-> TRUE]

removeExcludedMethodsOp(H, methods) ==
  IF H.cur = 0 \/ ~Truthy(H.objs[H.cur].methods)
  THEN [H |-> H, invalidate |-> FALSE]
  ELSE LET a == NewArray(H, SelectSeq(ListOf(H, H.objs[H.cur].methods),
                   LAMBDA m : ~(m \in Range(methods))))
       IN [H |-> [a.H EXCEPT !.objs[H.cur].methods = Arr(a.ref)], invalidate |-> TRUE]

\* Mutant: return { ...currentExclude }
getExclusionOpNeverUndefined(H) ==
  IF H.cur # 0
  THEN LET c == ShallowCopy(H, H.cur) IN [H |-> c.H, o |-> c.o]
  ELSE LET n == NewObject(H, Lit(LUndef, LUndef, LUndef)) IN [H |-> n.H, o |-> n.o]

\* return currentExclude ? { ...currentExclude } : undefined
getExclusionOp(H) ==
  IF H.cur # 0
  THEN LET c == ShallowCopy(H, H.cur) IN [H |-> c.H, o |-> c.o]
  ELSE [H |-> H, o |-> 0]

\* What a mutator does to the state, given what its operator returned.
Apply(r) ==
  /\ Install(r.H)
  /\ IF r.invalidate THEN Invalidate ELSE UNCHANGED Cache
  /\ UNCHANGED << Config, pc >>

\* An add/remove call; the host lets go of its object after MaxHold of them.
Mutate(r) ==
  LET drop == held # 0 /\ heldAge >= MaxHold
  IN /\ Entries(Deep(r.H, r.H.cur)) <= MaxEntries \/ ~r.invalidate
     /\ Apply([r EXCEPT !.H.held = IF drop THEN 0 ELSE @])
     /\ heldFrom' = IF drop THEN "none" ELSE heldFrom
     /\ heldAge' = IF drop \/ held = 0 THEN 0 ELSE heldAge + 1

\* keep: whether the host keeps a reference to the object it passed.
setExclusion(lit, keep) ==
  /\ IF lit.undef
     THEN /\ Apply(setExclusionOp(Heap, 0))
          /\ UNCHANGED << heldFrom, heldAge >>
     ELSE LET n == NewObject(Heap, lit)
          IN IF keep
             THEN /\ Apply(setExclusionOp([n.H EXCEPT !.held = n.o], n.o))
                  /\ heldFrom' = "arg"
                  /\ heldAge' = 0
             ELSE /\ Apply(setExclusionOp(n.H, n.o))
                  /\ UNCHANGED << heldFrom, heldAge >>
  /\ last' = Log("setExclusion", <<>>, lit, "none", FALSE, NoArg)

addExcludedPaths(paths) ==
  /\ Mutate(addExcludedPathsOp(Heap, paths))
  /\ last' = Log("addExcludedPaths", paths, NoArg, "none", FALSE,
                 Deep(Heap, currentExclude))

\* The history also tells when the call undoes the addExcludedPaths call just
\* before it (the same values), and keeps the policy that call started from.
removeExcludedPaths(paths) ==
  /\ Mutate(removeExcludedPathsOp(Heap, paths))
  /\ last' = IF last.op = "addExcludedPaths" /\ SameValues(last.args, paths)
             THEN [Log("removeExcludedPaths", paths, NoArg, "none", FALSE,
                       last.before) EXCEPT !.trip = TRUE]
             ELSE Log("removeExcludedPaths", paths, NoArg, "none", FALSE, NoArg)

addExcludedTags(tags) ==
  /\ Mutate(addExcludedTagsOp(Heap, tags))
  /\ last' = Log("addExcludedTags", tags, NoArg, "none", FALSE, NoArg)

removeExcludedTags(tags) ==
  /\ Mutate(removeExcludedTagsOp(Heap, tags))
  /\ last' = Log("removeExcludedTags", tags, NoArg, "none", FALSE, NoArg)

addExcludedMethods(methods) ==
  /\ Mutate(addExcludedMethodsOp(Heap, methods))
  /\ last' = Log("addExcludedMethods", methods, NoArg, "none", FALSE, NoArg)

removeExcludedMethods(methods) ==
  /\ Mutate(removeExcludedMethodsOp(Heap, methods))
  /\ last' = Log("removeExcludedMethods", methods, NoArg, "none", FALSE, NoArg)

\* The host keeps what getExclusion returned.
getExclusion ==
  LET r == getExclusionOp(Heap)
  IN /\ Install([r.H EXCEPT !.held = r.o])
     /\ heldFrom' = IF r.o = 0 THEN "none" ELSE "snapshot"
     /\ heldAge' = 0
     /\ last' = [Log("getExclusion", <<>>, NoArg,
                     IF r.o = 0 THEN "undefined" ELSE "object", FALSE, NoArg)
                   EXCEPT !.after = last.op]
     /\ UNCHANGED << Config, Cache, pc >>

\* ------------------------------------------------------------------ readers
\* ok: whether toOpenAPISchema returns on this call or throws.

\* Mutant: the endpoint does not store the route count.
openAPISchemaOpCountNotStored(ok) ==
  IF totalRoutes = Len(routes) /\ cachedSchema.defined
  THEN [totalRoutes |-> totalRoutes, cachedSchema |-> cachedSchema,
        ret |-> "doc", rebuilt |-> FALSE]
  ELSE IF ok
  THEN [totalRoutes |-> totalRoutes, cachedSchema |-> Build,
        ret |-> "doc", rebuilt |-> TRUE]
  ELSE [totalRoutes |-> totalRoutes, cachedSchema |-> cachedSchema,
        ret |-> "error", rebuilt |-> TRUE]

\* Mutant: if (cachedSchema) return cachedSchema
openAPISchemaOpIgnoresCount(ok) ==
  IF cachedSchema.defined
  THEN [totalRoutes |-> totalRoutes, cachedSchema |-> cachedSchema,
        ret |-> "doc", rebuilt |-> FALSE]
  ELSE IF ok
  THEN [totalRoutes |-> Len(routes), cachedSchema |-> Build,
        ret |-> "doc", rebuilt |-> TRUE]
  ELSE [totalRoutes |-> Len(routes), cachedSchema |-> cachedSchema,
        ret |-> "error", rebuilt |-> TRUE]

\* The spec endpoint: what it assigns and what it answers.
openAPISchemaOp(ok) ==
  IF totalRoutes = Len(routes) /\ cachedSchema.defined
  THEN [totalRoutes |-> totalRoutes, cachedSchema |-> cachedSchema,
        ret |-> "doc", rebuilt |-> FALSE]
  ELSE IF ok
  THEN [totalRoutes |-> Len(routes), cachedSchema |-> Build,
        ret |-> "doc", rebuilt |-> TRUE]
  ELSE [totalRoutes |-> Len(routes), cachedSchema |-> cachedSchema,
        ret |-> "error", rebuilt |-> TRUE]

\* The documentation page with embedSpec: JSON.stringify(totalRoutes ===
\* routes.length ? cachedSchema : toFullSchema(...)).
pageOp(ok) ==
  IF totalRoutes = Len(routes)
  THEN [totalRoutes |-> totalRoutes, cachedSchema |-> cachedSchema,
        ret |-> IF cachedSchema.defined THEN "doc" ELSE "undefined",
        rebuilt |-> FALSE]
  ELSE IF ok
  THEN [totalRoutes |-> totalRoutes, cachedSchema |-> Build,
        ret |-> "doc", rebuilt |-> TRUE]
  ELSE [totalRoutes |-> totalRoutes, cachedSchema |-> cachedSchema,
        ret |-> "error", rebuilt |-> TRUE]

Heaps == << currentExclude, objs, arrs, held, heldFrom, heldAge >>

openAPISchema(ok) ==
  LET r == openAPISchemaOp(ok)
  IN /\ RunToCompletion
     /\ totalRoutes' = r.totalRoutes
     /\ cachedSchema' = r.cachedSchema
     /\ last' = LogRead("openAPISchema", r.ret, r.rebuilt)
     /\ UNCHANGED << Config, Heaps, pc >>

page(ok) ==
  /\ embedSpec
  /\ RunToCompletion
  /\ LET r == pageOp(ok)
     IN /\ totalRoutes' = r.totalRoutes
        /\ cachedSchema' = r.cachedSchema
        /\ last' = LogRead("page", r.ret, r.rebuilt)
  /\ UNCHANGED << Config, Heaps, pc >>

ValuesOf(f) ==
  CASE f = "paths" -> PathValues
    [] f = "tags" -> TagValues
    [] OTHER -> MethodValues

\* ------------------------------------------------------------------ host
\* The host registers one more route on the application.
register(r) ==
  /\ Len(routes) < Len(OwnRoutes) + MaxRoutes
  /\ r \notin Range(routes)
  /\ routes' = Append(routes, r)
  /\ last' = Log("register", <<>>, NoArg, "none", FALSE, NoArg)
  /\ UNCHANGED << documentation, embedSpec, Cache, Heaps, pc >>

\* The host changes, in place, the object it holds: list.push(v), list.pop()
\* and delete obj.field.  None of them calls into the plugin.
HostStep(H, op, args) ==
  /\ Entries(Deep(H, H.held)) <= MaxEntries
  /\ Entries(Deep(H, H.cur)) <= MaxEntries
  /\ Install(H)
  /\ last' = Log(op, args, NoArg, "none", FALSE, NoArg)
  /\ UNCHANGED << Config, Cache, heldFrom, heldAge, pc >>

hostPush(f, v) ==
  /\ held # 0
  /\ objs[held][f].t = "arr"
  /\ HostStep([Heap EXCEPT !.arrs[objs[held][f].ref] = Append(@, v)],
              "hostPush", <<v>>)

hostPop(f) ==
  /\ held # 0
  /\ objs[held][f].t = "arr"
  /\ arrs[objs[held][f].ref] # <<>>
  /\ HostStep([Heap EXCEPT !.arrs[objs[held][f].ref] = SubSeq(@, 1, Len(@) - 1)],
              "hostPop", <<>>)

hostDelete(f) ==
  /\ held # 0
  /\ Truthy(objs[held][f])
  /\ HostStep([Heap EXCEPT !.objs[held][f] = Undef], "hostDelete", <<>>)

\* ------------------------------------------------------------------ statements
\* A mutator call statement by statement: first the assignments to
\* currentExclude and its lists, then invalidateCache() where the call
\* reaches it.  name is the mutator, args and lit what it was called with.
mutatorAssign(name, r, args, lit) ==
  /\ RunToCompletion
  /\ Entries(Deep(r.H, r.H.cur)) <= MaxEntries \/ ~r.invalidate
  /\ Install(r.H)
  /\ pc' = IF r.invalidate THEN "invalidateCache" ELSE "idle"
  /\ last' = Log(name, args, lit, "none", FALSE, NoArg)
  /\ UNCHANGED << Config, Cache, heldFrom, heldAge >>

mutatorInvalidate ==
  /\ pc = "invalidateCache"
  /\ Invalidate
  /\ pc' = "idle"
  /\ UNCHANGED << Config, Heaps, last >>

setExclusionAssign(lit) ==
  IF lit.undef
  THEN mutatorAssign("setExclusion", setExclusionOp(Heap, 0), <<>>, lit)
  ELSE LET n == NewObject(Heap, lit)
       IN mutatorAssign("setExclusion", setExclusionOp(n.H, n.o), <<>>, lit)

\* ------------------------------------------------------------------ inputs
\* The values the mutators are called with.  Core* are the smaller menus of
\* the specifications that explore the cache and the heap.
CorePaths   == { Str("/private") }
CoreTags    == { Str("admin") }
CoreMethods == { Str("GET") }
CoreArgs ==
  { NoArg,
    WithDef(Lit(LUndef, LUndef, LUndef)),
    WithDef(Lit(LArr(<<Str("/private")>>), LArr(<<Str("admin")>>), LUndef)) }

CoreRoutes == { Route("GET", "/private", <<"admin">>, FALSE),
                Route("GET", "/item/:id", <<>>, FALSE) }

\* The routes of a host that has registered all of its routes.
HostRoutes == << Route("GET", "/private", <<"admin">>, FALSE),
                 Route("POST", "/private", <<"user">>, FALSE),
                 Route("GET", "/item/:id", <<>>, FALSE),
                 Route("POST", "/item/:id", <<>>, TRUE) >>

\* The exclude values the plugin is configured with.
ExcludeMenu ==
  { NoArg,
    WithDef(Lit(LArr(<<Str("/private")>>), LArr(<<Str("admin")>>), LUndef)) }

EmptyHeap == [objs |-> <<>>, arrs |-> <<>>, cur |-> 0, held |-> 0]

\* let currentExclude = exclude ? { ...exclude } : undefined
InitHeap(lit, keep) ==
  IF lit.undef THEN EmptyHeap
  ELSE LET n == NewObject(EmptyHeap, lit)
       IN Canon(setExclusionOp([n.H EXCEPT !.held = IF keep THEN n.o ELSE 0],
                               n.o).H)

\* The state after construction: rs are the routes registered so far.
InitWith(rs, docs, embeds, keep) ==
  /\ routes = rs
  /\ documentation \in docs
  /\ embedSpec \in embeds
  /\ totalRoutes = 0
  /\ cachedSchema = NoDoc
  /\ \E lit \in ExcludeMenu :
        /\ objs = InitHeap(lit, keep).objs
        /\ arrs = InitHeap(lit, keep).arrs
        /\ currentExclude = InitHeap(lit, keep).cur
        /\ held = InitHeap(lit, keep).held
        /\ heldFrom = IF lit.undef \/ ~keep THEN "none" ELSE "arg"
  /\ heldAge = 0
  /\ pc = "idle"
  /\ last = Log("init", <<>>, NoArg, "none", FALSE, NoArg)

Mutator(PV, TV, MV, AM, keep) ==
  \/ \E lit \in AM : setExclusion(lit, keep)
  \/ \E paths \in ArgSeqs(PV) : addExcludedPaths(paths)
  \/ \E paths \in ArgSeqs(PV) : removeExcludedPaths(paths)
  \/ \E tags \in ArgSeqs(TV) : addExcludedTags(tags)
  \/ \E tags \in ArgSeqs(TV) : removeExcludedTags(tags)
  \/ \E methods \in ArgSeqs(MV) : addExcludedMethods(methods)
  \/ \E methods \in ArgSeqs(MV) : removeExcludedMethods(methods)

Reader ==
  \/ \E ok \in BOOLEAN : openAPISchema(ok)
  \/ \E ok \in BOOLEAN : page(ok)

Host ==
  \/ \E f \in FieldNames : \E v \in ValuesOf(f) \cap (CorePaths \cup CoreTags \cup CoreMethods) :
        hostPush(f, v)
  \/ \E f \in FieldNames : hostPop(f)
  \/ \E f \in FieldNames : hostDelete(f)

\* ------------------------------------------------------------------ specifications
\* Spec: the cache under route registrations, both readers and the
\* mutators; the host keeps no reference into the policy.
Init == InitWith(OwnRoutes, DocumentationMenu, {TRUE}, FALSE)

Next ==
  \/ Mutator(CorePaths, CoreTags, CoreMethods, CoreArgs, FALSE)
  \/ Reader
  \/ \E r \in CoreRoutes : register(r)

Spec == Init /\ [][Next]_vars

\* SpecPolicy: the mutators with every kind of value, over a host that has
\* registered its routes, read through the spec endpoint.
InitPolicy == InitWith(OwnRoutes \o HostRoutes, DocumentationMenu, {FALSE}, FALSE)

NextPolicy ==
  \/ Mutator(PathValues, TagValues, MethodValues, ArgMenu, FALSE)
  \/ \E ok \in BOOLEAN : openAPISchema(ok)

SpecPolicy == InitPolicy /\ [][NextPolicy]_vars

\* SpecHost: the host keeps the objects it passes and receives, and changes
\* them in place.
InitHost == InitWith(OwnRoutes \o HostRoutes, {FullDocumentation}, {FALSE}, TRUE)

NextHost ==
  \/ Mutator(CorePaths, CoreTags, CoreMethods, CoreArgs, TRUE)
  \/ getExclusion
  \/ Host
  \/ openAPISchema(TRUE)

SpecHost == InitHost /\ [][NextHost]_vars

\* SpecSteps: the mutators statement by statement, with requests arriving
\* at any time and served as the scheduling of the handlers allows.
InitSteps == InitWith(OwnRoutes \o SubSeq(HostRoutes, 1, 1), DocumentationMenu,
                      {TRUE}, FALSE)

NextSteps ==
  \/ \E lit \in CoreArgs : setExclusionAssign(lit)
  \/ \E paths \in ArgSeqs(CorePaths) :
        mutatorAssign("addExcludedPaths", addExcludedPathsOp(Heap, paths), paths, NoArg)
  \/ \E paths \in ArgSeqs(CorePaths) :
        mutatorAssign("removeExcludedPaths", removeExcludedPathsOp(Heap, paths), paths, NoArg)
  \/ \E tags \in ArgSeqs(CoreTags) :
        mutatorAssign("addExcludedTags", addExcludedTagsOp(Heap, tags), tags, NoArg)
  \/ \E tags \in ArgSeqs(CoreTags) :
        mutatorAssign("removeExcludedTags", removeExcludedTagsOp(Heap, tags), tags, NoArg)
  \/ \E methods \in ArgSeqs(CoreMethods) :
        mutatorAssign("addExcludedMethods", addExcludedMethodsOp(Heap, methods), methods, NoArg)
  \/ \E methods \in ArgSeqs(CoreMethods) :
        mutatorAssign("removeExcludedMethods", removeExcludedMethodsOp(Heap, methods), methods, NoArg)
  \/ mutatorInvalidate
  \/ Reader

SpecSteps == InitSteps /\ [][NextSteps]_vars

\* ------------------------------------------------------------------ properties
DeepNow == Deep(Heap, currentExclude)

MutatorOps == { "setExclusion", "addExcludedPaths", "removeExcludedPaths",
                "addExcludedTags", "removeExcludedTags",
                "addExcludedMethods", "removeExcludedMethods" }
HostOps == { "hostPush", "hostPop", "hostDelete" }

\* The spec endpoint has just answered with a document (it is cachedSchema).
ReadDoc == last.op = "openAPISchema" /\ last.ret = "doc"

\* The operation of route r is in document d.
Present(r, d) ==
  /\ ToOpenAPIPath(r.path) \in DOMAIN d.paths
  /\ Lower(r.method) \in d.paths[ToOpenAPIPath(r.path)]

StaticKey(r) == ToOpenAPIPath(r.path) \in DOMAIN documentation.paths

\* C1: every document the spec endpoint returns was built from the policy
\* in force at the time of the read, whatever mutators, registrations and
\* reads came before; no mutator leaves a document of an earlier policy to
\* be served.
C1_ReadReflectsPolicy == ReadDoc => cachedSchema.builtWith = DeepNow

\* A read answered by a build that ran under a method exclusion, which only
\* a mutator call can have installed.
C1_Witness ==
  /\ ReadDoc
  /\ last.rebuilt
  /\ last.after \in MutatorOps
  /\ DeepNow.methods.items = <<Str("GET")>>
  /\ DeepNow.paths.items = <<Str("/private")>>

\* C2 as stated: in every document the spec endpoint returns, a route has
\* its operation in paths if and only if the Route Filter includes it, also
\* when the static documentation declares paths.
C2_PresentIffIncluded ==
  ReadDoc =>
    \A i \in DOMAIN routes :
       Present(routes[i], cachedSchema) <=> RouteFilter(routes[i], DeepNow)

\* C2 amended: the equivalence holds for every route whose path-item key the
\* static documentation does not declare; a key it declares holds the static
\* path-item, whatever the routes and the filter say.
C2_PresentIffIncludedOrStatic ==
  ReadDoc =>
    /\ \A i \in DOMAIN routes :
          ~StaticKey(routes[i]) =>
             (Present(routes[i], cachedSchema) <=> RouteFilter(routes[i], DeepNow))
    /\ \A k \in DOMAIN documentation.paths :
          /\ k \in DOMAIN cachedSchema.paths
          /\ cachedSchema.paths[k] = documentation.paths[k]

\* A document built under path, tag and method exclusions together, with
\* static paths declared, one of them on the key of an included route.
C2_Witness ==
  /\ ReadDoc
  /\ documentation = FullDocumentation
  /\ DeepNow.paths.items # <<>>
  /\ DeepNow.tags.items # <<>>
  /\ DeepNow.methods.items # <<>>
  /\ \E i \in DOMAIN routes :
        StaticKey(routes[i]) /\ RouteFilter(routes[i], DeepNow)
  /\ \E i \in DOMAIN routes :
        ~StaticKey(routes[i]) /\ Present(routes[i], cachedSchema)

\* The paths of the document a build under policy ex gives.
DocPaths(ex) == toFullSchema(toOpenAPISchema(routes, ex), ex).paths

\* No value of args is the same as an entry of the path list of policy ex.
NoneListed(ex, args) ==
  \A e \in Range(ex.paths.items) : \A i \in DOMAIN args : ~Equal(e, args[i])

\* C3 as stated: removeExcludedPaths with the values of the addExcludedPaths
\* call just before it restores the document paths that held before the add,
\* also when a value was already listed before the add.
C3_RoundTrip ==
  (last.op = "removeExcludedPaths" /\ last.trip) =>
     DocPaths(DeepNow) = DocPaths(last.before)

\* C3 amended: the round trip restores the document paths when none of the
\* values was in the path list before the add.
C3_RoundTripOfNewValues ==
  (last.op = "removeExcludedPaths" /\ last.trip /\ NoneListed(last.before, last.args)) =>
     DocPaths(DeepNow) = DocPaths(last.before)

\* A round trip of a string and a RegExp that excluded a route in between.
C3_Witness ==
  /\ last.op = "removeExcludedPaths" /\ last.trip
  /\ NoneListed(last.before, last.args)
  /\ \E i, j \in DOMAIN last.args :
        last.args[i].kind = "str" /\ last.args[j].kind = "re"
  /\ documentation = NoDocumentation
  /\ \E i \in DOMAIN routes : Present(routes[i], [paths |-> DocPaths(DeepNow)])
                              /\ PathMatch(routes[i], [paths |-> [items |-> last.args]])

\* C4 as stated: when the host changes, in place, the object it passed as
\* exclude or to setExclusion, or a list inside it, the policy (what
\* getExclusion returns, what the next build filters with) does not change.
C4_ArgumentNotAliased ==
  [][ (last'.op \in HostOps /\ heldFrom = "arg") => DeepNow' = DeepNow ]_vars

\* C5 as stated: when the host changes, in place, the value getExclusion
\* returned, or a list inside it, the policy does not change.
C5_SnapshotNotAliased ==
  [][ (last'.op \in HostOps /\ heldFrom = "snapshot") => DeepNow' = DeepNow ]_vars

\* The cache is FRESH: the spec endpoint would answer from it.
Fresh == totalRoutes = Len(routes) /\ cachedSchema.defined

\* C6 as stated: when a build run by the spec endpoint has thrown, the
\* endpoint having found the cache invalidated (no document) or stale by its
\* route count (a document, stored under another count), the cache is not
\* FRESH.
C6_FailedBuildLeavesStale ==
  ( /\ last.op = "openAPISchema" /\ last.ret = "error"
    /\ ~last.hadDoc \/ last.stored > 0 )
  => ~Fresh

RemoveOp(f) ==
  CASE f = "paths" -> "removeExcludedPaths"
    [] f = "tags" -> "removeExcludedTags"
    [] OTHER -> "removeExcludedMethods"

\* C7 as stated: a removal called, while the cache is FRESH, with values
\* none of which is in the existing list leaves the stored document and the
\* stored count as they were.
C7_NothingRemovedKeepsCache ==
  [][ \A f \in FieldNames :
        ( /\ Fresh
          /\ last'.op = RemoveOp(f)
          /\ last'.args # <<>>
          /\ DeepNow[f].t # "undef"
          /\ \A e \in Range(DeepNow[f].items) :
                \A i \in DOMAIN last'.args : ~Equal(e, last'.args[i]) )
        => (cachedSchema' = cachedSchema /\ totalRoutes' = totalRoutes) ]_vars

\* C8: a spec-endpoint read that comes straight after a spec-endpoint read
\* that returned a document returns the stored document and runs no build.
C8_SecondReadIsCacheHit ==
  [][ (ReadDoc /\ last'.op = "openAPISchema")
        => ( /\ last'.ret = "doc"
             /\ ~last'.rebuilt
             /\ cachedSchema' = cachedSchema
             /\ totalRoutes' = totalRoutes ) ]_vars

\* A read served from the cache straight after a read that built it.
C8_Witness ==
  /\ ReadDoc
  /\ last.after = "openAPISchema"
  /\ ~last.rebuilt
  /\ Len(routes) > Len(OwnRoutes)

EmptyPolicy == WithDef(Lit(LUndef, LUndef, LUndef))

\* Document d shows every route that is neither hidden nor reserved, and no
\* hidden or reserved one (a path-item the static documentation declares is
\* the static one: see C2).
AllVisible(d) ==
  \A i \in DOMAIN routes :
     LET r == routes[i]
     IN IF r.hide \/ IsReserved(r.path)
        THEN ~StaticKey(r) => ~Present(r, d)
        ELSE /\ ToOpenAPIPath(r.path) \in DOMAIN d.paths
             /\ ~StaticKey(r) => Present(r, d)

\* C9: setExclusion(v) leaves exactly the policy v: after setExclusion({})
\* no path, tag or method entry is left, and the document the next read
\* returns shows every route that is neither hidden nor reserved; after
\* setExclusion(undefined) getExclusion returns undefined.
C9_SetExclusionReplaces ==
  /\ last.op = "setExclusion" => DeepNow = last.lit
  /\ (last.op = "setExclusion" /\ last.lit = EmptyPolicy) => Entries(DeepNow) = 0
  /\ (last.op = "setExclusion" /\ last.lit.undef) => getExclusionOp(Heap).o = 0
  /\ (ReadDoc /\ last.after = "setExclusion" /\ DeepNow = EmptyPolicy)
        => AllVisible(cachedSchema)

\* The read after setExclusion({}), with host routes registered.
C9_Witness ==
  /\ ReadDoc /\ last.rebuilt
  /\ last.after = "setExclusion"
  /\ DeepNow = EmptyPolicy
  /\ documentation = NoDocumentation
  /\ \E i \in DOMAIN routes : Present(routes[i], cachedSchema)

\* C10: a spec-endpoint read that finds the stored count different from
\* the live route count runs a build and stores the live count; the
\* document it returns is the build over the live routes and the current
\* policy, so it shows every registered route the filter includes.
C10_CountMismatchRebuilds ==
  (last.op = "openAPISchema" /\ last.stored # Len(routes)) =>
     /\ last.rebuilt
     /\ totalRoutes = Len(routes)
     /\ last.ret = "doc" =>
          /\ cachedSchema = Build
          /\ \A i \in DOMAIN routes :
                (RouteFilter(routes[i], DeepNow) /\ ~StaticKey(routes[i]))
                   => Present(routes[i], cachedSchema)

\* A read that found a stored document of an earlier, smaller route set and
\* returned a document with a host route in it.
C10_Witness ==
  /\ ReadDoc
  /\ last.hadDoc
  /\ last.stored > 0 /\ last.stored < Len(routes)
  /\ \E i \in DOMAIN routes : i > last.stored /\ Present(routes[i], cachedSchema)

\* The value the host holds, as a literal would write it.
HeldValue == Deep(Heap, held)

\* C11: getExclusion is a pure read: a call leaves the policy, the stored
\* document and the stored count as they were, the value it returns is
\* structurally equal to the policy, and a call straight after another call
\* returns a value structurally equal to the one that call returned.
C11_GetExclusionIsPure ==
  [][ last'.op = "getExclusion" =>
        /\ DeepNow' = DeepNow
        /\ cachedSchema' = cachedSchema /\ totalRoutes' = totalRoutes
        /\ HeldValue' = DeepNow
        /\ (last'.ret = "undefined") <=> (currentExclude = 0)
        /\ last.op = "getExclusion" => HeldValue' = HeldValue ]_vars

\* A second getExclusion straight after a first, over a policy with
\* entries and a FRESH cache.
C11_Witness ==
  /\ last.op = "getExclusion" /\ last.after = "getExclusion"
  /\ Entries(DeepNow) > 0
  /\ Fresh

ReadOps == { "openAPISchema", "page" }

\* C12 as stated: after a build that succeeded, run by the spec endpoint or
\* by the documentation page with the embedded spec, the stored document is
\* that build and the stored count is the live route count, so the cache is
\* FRESH and the next read is served from it.
C12_BuildStoresDocAndCount ==
  (last.op \in ReadOps /\ last.rebuilt /\ last.ret = "doc") =>
     /\ cachedSchema = Build
     /\ totalRoutes = Len(routes)
     /\ Fresh

\* C13 as stated: when the documentation page has served from the cache
\* (the stored count was the live count), what it inlined is a document,
\* and it is the document a build over the live routes and the current
\* policy gives.
C13_PageServesCurrentDocument ==
  (last.op = "page" /\ ~last.rebuilt) =>
     /\ last.ret = "doc"
     /\ cachedSchema.defined
     /\ cachedSchema = Build

\* C14: with requests arriving at any time, also while a mutator call is
\* between its assignment to the policy and its invalidateCache(), no read
\* is served from the cache a document that was built under another policy
\* than the one in force: no read runs between the two statements.
C14_MutatorIsIndivisible ==
  /\ (last.op \in ReadOps /\ last.ret = "doc" /\ ~last.rebuilt)
        => cachedSchema.builtWith = DeepNow
  /\ pc # "idle" => last.op \in MutatorOps

\* A read served from the cache after mutator calls ran, statement by
\* statement, and left a method exclusion.
C14_Witness ==
  /\ last.op \in ReadOps /\ last.ret = "doc" /\ ~last.rebuilt
  /\ DeepNow.methods.items = <<Str("GET")>>
  /\ pc = "idle"

\* C15 as stated: after removeExcludedMethods(m..), no registered route whose
\* method is one of the m, letter case ignored, is excluded by its method,
\* in whatever case the method was added.
C15_MethodRemovalIgnoresCase ==
  last.op = "removeExcludedMethods" =>
     \A i \in DOMAIN last.args : \A j \in DOMAIN routes :
        Lower(routes[j].method) = Lower(last.args[i].source)
           => ~MethodMatch(routes[j], DeepNow)

\* C16: a removal mutator called when the policy is undefined or has no
\* list of its kind changes nothing: the policy (undefined stays undefined,
\* an absent list stays absent), the stored document and the stored count
\* are as before.
C16_RemoveWithoutListIsNoOp ==
  [][ \A f \in FieldNames :
        (last'.op = RemoveOp(f) /\ DeepNow[f].t = "undef")
        => /\ DeepNow' = DeepNow
           /\ cachedSchema' = cachedSchema
           /\ totalRoutes' = totalRoutes ]_vars

\* removeExcludedPaths with a value, no path list, and the cache FRESH
\* after it.
C16_Witness ==
  /\ last.op = "removeExcludedPaths" /\ last.args # <<>>
  /\ DeepNow.paths.t = "undef"
  /\ Fresh

\* C17: removeExcludedPaths(v..) on a policy with a path list (or a single
\* scalar path, taken as a list of one) leaves, as a list and in their
\* order, exactly the entries that equal none of the v: strings by value,
\* RegExps by source and flags whatever the object, a string never a
\* RegExp; the tag and method lists are as before.
C17_RemovesExactlyEqualEntries ==
  [][ (last'.op = "removeExcludedPaths" /\ DeepNow.paths.t # "undef") =>
        /\ DeepNow'.paths.t = "arr"
        /\ DeepNow'.paths.items =
              SelectSeq(DeepNow.paths.items,
                        LAMBDA e : \A i \in DOMAIN last'.args : ~Equal(e, last'.args[i]))
        /\ DeepNow'.tags = DeepNow.tags
        /\ DeepNow'.methods = DeepNow.methods ]_vars

\* A policy whose paths was a single RegExp with flag i; a RegExp of the
\* same source without the flag was added, then removed by value: the
\* scalar survives, as a list of one.
C17_Witness ==
  /\ last.op = "removeExcludedPaths" /\ last.trip
  /\ last.before.paths.t = "val"
  /\ \E i \in DOMAIN last.args : last.args[i].kind = "re" /\ last.args[i].flags = ""
  /\ DeepNow.paths.t = "arr"
  /\ Len(DeepNow.paths.items) = 1
  /\ DeepNow.paths.items[1].kind = "re" /\ DeepNow.paths.items[1].flags = "i"

\* The names in the tag list of the policy.
ExcludedTagNames == { DeepNow.tags.items[i].source : i \in DOMAIN DeepNow.tags.items }

\* C18: in every document a read returns, tags is the static tag list
\* without the tags whose name is in the tag list of the current policy, in
\* the static order; with no policy or no tag list it is the static list,
\* and it is absent when the static documentation has no tags.
C18_TagsAreStaticMinusExcluded ==
  (last.op \in ReadOps /\ last.ret = "doc") =>
     /\ cachedSchema.hasTags = documentation.hasTags
     /\ cachedSchema.tags =
           SelectSeq(documentation.tags, LAMBDA name : name \notin ExcludedTagNames)
     /\ DeepNow.tags.t = "undef" => cachedSchema.tags = documentation.tags

\* A document built after a removeExcludedTags call that left admin
\* excluded: of admin, misc, user it lists misc and user.
C18_Witness ==
  /\ ReadDoc /\ last.rebuilt
  /\ last.after = "removeExcludedTags"
  /\ documentation = FullDocumentation
  /\ ExcludedTagNames = {"admin"}
  /\ cachedSchema.tags = <<"misc", "user">>

AddOps == { "addExcludedPaths", "addExcludedTags", "addExcludedMethods" }
RemoveOps == { "removeExcludedPaths", "removeExcludedTags", "removeExcludedMethods" }

\* The list an add/remove mutator works on.
OpField(op) ==
  CASE op \in {"addExcludedPaths", "removeExcludedPaths"} -> "paths"
    [] op \in {"addExcludedTags", "removeExcludedTags"} -> "tags"
    [] OTHER -> "methods"

\* C19: an add/remove mutator changes, in place, neither the object the
\* host passed as exclude or to setExclusion nor the value an earlier
\* getExclusion returned, nor a list inside them: what the host holds has
\* the same value after the call, and the list the call leaves in the
\* policy is a new one, not the list the host's object holds.
C19_MutatorsCopyOnWrite ==
  [][ (last'.op \in AddOps \cup RemoveOps /\ held # 0 /\ held' # 0) =>
        /\ HeldValue' = HeldValue
        /\ LET f == OpField(last'.op)
           IN (last'.op \in AddOps \/ DeepNow[f].t # "undef") =>
                /\ objs'[currentExclude'][f].t = "arr"
                /\ objs'[held'][f].t = "arr" =>
                      objs'[held'][f].ref # objs'[currentExclude'][f].ref ]_vars

\* removeExcludedTags emptied the tag list of the policy while the object
\* the host holds still lists the tag.
C19_Witness ==
  /\ last.op = "removeExcludedTags"
  /\ held # 0
  /\ HeldValue.tags.items = <<Str("admin")>>
  /\ DeepNow.tags.t = "arr" /\ DeepNow.tags.items = <<>>

====
